---------------------------- MODULE Spec2Model ----------------------------
(***************************************************************************)
(* A model of github.com/ilius/is: the reflection-based equality engine    *)
(* (isNil, isZero, isEqual), the check operations built on it, and the     *)
(* assertion context (v2 Is, v3 asserter) with its failure dispatch.       *)
(*                                                                         *)
(* Go values held in an `any` are records                                  *)
(*   [t, nil, addr, n, s, q]                                               *)
(* t is the dynamic type's name ("nil" for the untyped nil interface),     *)
(* nil says whether a reference value is nil, addr is the identity of a    *)
(* pointer, slice, map, channel or function (0 when nil or not a           *)
(* reference), n is the numeric payload (an integer, a bool as 0/1, the    *)
(* field of a struct or of a pointee), s the string payload and q the      *)
(* elements of a slice, array or map.                                      *)
(***************************************************************************)
EXTENDS Integers, Sequences, FiniteSets, TLC

VARIABLES
    ver,      \* package generation under test: 2 (type Is) or 3 (type asserter)
    goVersion, \* the Go toolchain the test binary was built with
    pc,       \* position of the harness / of the running operation
    a,        \* left operand of the equality under test
    b,        \* right operand of the equality under test
    out,      \* outcome of the last isEqual call: [ret, panic, calls]
    ctx,      \* the contexts (Is / asserter structs) allocated so far, by id
    heap,     \* backing arrays of the failArgs slices, by array id
    tblog,    \* calls received by the test handle: [ctx, tb, fn, format, args]
    running,  \* the test goroutine has not been stopped by Fatalf
    hist,     \* per context: the call that created it [op, from, f, xs]
    last,     \* the last call made: [op, src, f, xs]
    before,   \* what every context looked like before the last call
    scopes,   \* v3 Lax(fn) calls whose callback is running, innermost last:
              \* [parent, child, n, k], n checks made on the child, k failed
    done,     \* v3 Lax(fn) calls that returned: [parent, child, n, k, agg, strict]
    call,     \* the last check call, once it has ended: [op, ctx, args, ret,
              \* fails, panic, polls, sawTrue]
    wait      \* the WaitForTrue call in progress: [phase, ctx, timeout, timer, polls]

vars == <<ver, goVersion, pc, a, b, out, ctx, heap, tblog, running, hist, last, before,
          scopes, done, call, wait>>

eqVars == <<ver, goVersion, pc, a, b, out>>
ctxVars == <<ctx, heap, tblog, running, hist, last, before>>
laxVars == <<scopes, done>>
opVars == <<call, wait>>

-----------------------------------------------------------------------------
(* Values *)

mk(t, isnil, addr, n, s, q) ==
    [t |-> t, nil |-> isnil, addr |-> addr, n |-> n, s |-> s, q |-> q]

\* The untyped nil: an interface value with no dynamic type.
NilIface == mk("nil", TRUE, 0, 0, "", <<>>)

IntTypes == {"int8", "int16", "int32", "uint8", "uint16"}

Signed(t) == t \in {"int8", "int16", "int32"}

Bits(t) ==
    CASE t \in {"int8", "uint8"} -> 8
      [] t \in {"int16", "uint16"} -> 16
      [] OTHER -> 32

Pow2(k) == 2 ^ k

MinOf(t) ==
    CASE t = "int8" -> -128
      [] t = "int16" -> -32768
      [] t = "int32" -> -2147483647 - 1
      [] OTHER -> 0

MaxOf(t) ==
    CASE t = "int8" -> 127
      [] t = "uint8" -> 255
      [] t = "int16" -> 32767
      [] t = "uint16" -> 65535
      [] OTHER -> 2147483647

IntSamples == {-129, -128, -1, 0, 1, 65, 127, 128, 255, 256, 65535}

IntVal(t, n) == mk(t, FALSE, 0, n, "", <<>>)
StrVal(s) == mk("string", FALSE, 0, 0, s, <<>>)
BoolVal(x) == mk("bool", FALSE, 0, IF x THEN 1 ELSE 0, "", <<>>)
StructVal(v) == mk("testStruct", FALSE, 0, v, "", <<>>)
NilOf(t) == mk(t, TRUE, 0, 0, "", <<>>)
PtrVal(t, addr, v) == mk(t, FALSE, addr, v, "", <<>>)
SeqVal(t, addr, q) == mk(t, FALSE, addr, 0, "", q)
RefVal(t, addr) == mk(t, FALSE, addr, 0, "", <<>>)
ErrVal(addr, msg) == mk("*errors.errorString", FALSE, addr, 0, msg, <<>>)

IntValues ==
    UNION {{IntVal(t, n) : n \in {m \in IntSamples : MinOf(t) <= m /\ m <= MaxOf(t)}} :
           t \in IntTypes}

StringValues == {StrVal(s) : s \in {"", "A", "hello", "ell"}}

PointerValues ==
    {NilOf("*testStruct"), PtrVal("*testStruct", 1, 0), PtrVal("*testStruct", 2, 0),
     PtrVal("*testStruct", 3, 1)}

\* *equaler implements Equaler (the test fixture), *checker implements
\* EqualityChecker; n is the pointee's field `equal`.
HookValues ==
    {NilOf("*equaler"), PtrVal("*equaler", 4, 1), PtrVal("*equaler", 5, 0),
     PtrVal("*equaler", 6, 1), PtrVal("*checker", 7, 1), PtrVal("*checker", 8, 0)}

SliceValues ==
    {NilOf("[]int"), SeqVal("[]int", 9, <<>>), SeqVal("[]int", 10, <<0, 1>>),
     SeqVal("[]int", 11, <<0, 1>>), SeqVal("[]int", 12, <<0, 2>>)}

MapValues ==
    {NilOf("map[string]int"), SeqVal("map[string]int", 13, <<>>),
     SeqVal("map[string]int", 14, <<42>>)}

OtherValues ==
    {NilOf("chan int"), RefVal("chan int", 15), NilOf("func()"), RefVal("func()", 16),
     StructVal(0), StructVal(1), BoolVal(TRUE), BoolVal(FALSE),
     SeqVal("[3]int", 0, <<1, 2, 3>>)}

Values ==
    {NilIface} \cup IntValues \cup StringValues \cup PointerValues \cup HookValues
    \cup SliceValues \cup MapValues \cup OtherValues

-----------------------------------------------------------------------------
(* reflect: kinds, nil-ness, deep equality, conversion *)

Kind(t) ==
    CASE t = "nil" -> "Invalid"
      [] t = "bool" -> "Bool"
      [] t = "int8" -> "Int8"
      [] t = "int16" -> "Int16"
      [] t = "int32" -> "Int32"
      [] t = "uint8" -> "Uint8"
      [] t = "uint16" -> "Uint16"
      [] t = "string" -> "String"
      [] t = "testStruct" -> "Struct"
      [] t = "[3]int" -> "Array"
      [] t \in {"[]int", "[]int16", "[]interface {}"} -> "Slice"
      [] t = "map[string]int" -> "Map"
      [] t = "chan int" -> "Chan"
      [] t = "func()" -> "Func"
      [] OTHER -> "Ptr"

\* reflect.Kind's numbering: isNil tests a range of it.
KindNum(k) ==
    CASE k = "Invalid" -> 0
      [] k = "Bool" -> 1
      [] k = "Int8" -> 3
      [] k = "Int16" -> 4
      [] k = "Int32" -> 5
      [] k = "Uint8" -> 8
      [] k = "Uint16" -> 9
      [] k = "Array" -> 17
      [] k = "Chan" -> 18
      [] k = "Func" -> 19
      [] k = "Interface" -> 20
      [] k = "Map" -> 21
      [] k = "Ptr" -> 22
      [] k = "Slice" -> 23
      [] k = "String" -> 24
      [] OTHER -> 25

isNil(o) ==
    IF o = NilIface THEN TRUE
    ELSE LET kind == KindNum(Kind(o.t))
         IN  kind >= KindNum("Chan") /\ kind <= KindNum("Slice") /\ o.nil

\* reflect.DeepEqual on two interface values.
DeepEqual(x, y) ==
    IF x = NilIface \/ y = NilIface THEN x = y
    ELSE IF x.t # y.t THEN FALSE
    ELSE CASE Kind(x.t) = "Ptr" ->
                 \* the same pointer, or deeply equal pointees
                 IF x.nil \/ y.nil THEN x.nil /\ y.nil
                 ELSE x.addr = y.addr \/ (x.n = y.n /\ x.s = y.s)
           [] Kind(x.t) \in {"Slice", "Map"} ->
                 IF x.nil # y.nil THEN FALSE
                 ELSE IF Len(x.q) # Len(y.q) THEN FALSE
                 ELSE x.q = y.q
           [] Kind(x.t) = "Func" -> x.nil /\ y.nil
           [] Kind(x.t) = "Chan" -> x.nil = y.nil /\ x.addr = y.addr
           [] Kind(x.t) = "Array" -> x.q = y.q
           [] OTHER -> x.n = y.n /\ x.s = y.s

\* Mutant: only identical types convert.
ConvertibleTo_IdenticalOnly(src, dst) == src = dst

\* The toolchains that differ on the conversions of the universe: Go 1.19,
\* which the workflow installs, and Go 1.20 or later.
GoVersions == {"go1.19", "go1.20"}

\* reflect.Type.ConvertibleTo(dst) for the types of the universe.
\* A slice converts to an array of its element type from Go 1.20 on.
ConvertibleTo(src, dst) ==
    \/ src = dst
    \/ src \in IntTypes /\ dst \in IntTypes
    \/ src \in IntTypes /\ dst = "string"
    \/ src = "[]int" /\ dst = "[3]int" /\ goVersion = "go1.20"

\* An integer reduced to the width and signedness of type t.
Wrap(n, t) ==
    IF Bits(t) = 32 THEN n
    ELSE LET m == n % Pow2(Bits(t))
         IN  IF Signed(t) /\ m >= Pow2(Bits(t) - 1) THEN m - Pow2(Bits(t)) ELSE m

\* string(rune(n)): the UTF-8 encoding of a code point, U+FFFD when n is none.
RuneString(n) ==
    CASE n = 65 -> "A"
      [] n < 0 -> "U+FFFD"
      [] OTHER -> "U+" \o ToString(n)

\* The length of an array type.
ArrayLen(t) == CASE t = "[3]int" -> 3

\* reflect.Value.Convert(dst) panics on a slice shorter than the array type.
ConvertPanics(v, dst) ==
    Kind(v.t) = "Slice" /\ Kind(dst) = "Array" /\ Len(v.q) < ArrayLen(dst)

\* reflect.Value.Convert(dst), where ConvertibleTo holds.
Convert(v, dst) ==
    IF v.t = dst THEN v
    ELSE IF dst = "string" THEN StrVal(RuneString(v.n))
    ELSE IF Kind(dst) = "Array" THEN SeqVal(dst, 0, SubSeq(v.q, 1, ArrayLen(dst)))
    ELSE IntVal(dst, Wrap(v.n, dst))

\* Whether == on interface values of dynamic type t panics
\* ("comparing uncomparable type").
Comparable(t) == Kind(t) \notin {"Slice", "Map", "Func"}

-----------------------------------------------------------------------------
(* Equality hooks *)

Ret(x) == [ret |-> x, panic |-> FALSE, calls |-> <<>>]
Panic == [ret |-> FALSE, panic |-> TRUE, calls |-> <<>>]

ImplementsEqualer(t) == t = "*equaler"
ImplementsEqualityChecker(t) == t = "*checker"

\* Mutant: the hook looks at the type of its argument only.
equaler_Equal_TypeOnly(e, in) == in.t = e.t

\* (*equaler).Equal: false for another type, else the two `equal` fields agree.
equaler_Equal(e, in) ==
    IF in.t # e.t THEN FALSE ELSE e.n = in.n

\* Mutant: the right operand's hook is invoked with the left operand.
Call_OnRightOperand(method, e, in) ==
    [ret |-> equaler_Equal(in, e), panic |-> FALSE,
     calls |-> <<[method |-> method, recv |-> in, arg |-> e]>>]

\* e.Equal(b) / e.IsEqual(b): the hook of the receiver, called once with the argument.
Call(method, e, in) ==
    [ret |-> equaler_Equal(e, in), panic |-> FALSE,
     calls |-> <<[method |-> method, recv |-> e, arg |-> in]>>]

-----------------------------------------------------------------------------
(* isEqual *)

\* a == b on two interface values (both nil-like when isEqual evaluates it).
IfaceEq(x, y) ==
    IF x.t # y.t THEN Ret(FALSE)
    ELSE IF x = NilIface THEN Ret(TRUE)
    ELSE IF ~Comparable(x.t) THEN Panic
    ELSE Ret(x.nil = y.nil /\ x.addr = y.addr)

NilBranch(x, y) ==
    IF isNil(x) /\ ~isNil(y) THEN Ret(FALSE)
    ELSE IF ~isNil(x) /\ isNil(y) THEN Ret(FALSE)
    ELSE IfaceEq(x, y)

ConvertBranch(x, y) ==
    IF DeepEqual(x, y) THEN Ret(TRUE)
    ELSE IF ConvertibleTo(y.t, x.t)
         THEN IF ConvertPanics(y, x.t) THEN Panic ELSE Ret(DeepEqual(x, Convert(y, x.t)))
    ELSE Ret(FALSE)

\* v2
isEqual(x, y) ==
    IF isNil(x) \/ isNil(y) THEN NilBranch(x, y)
    ELSE IF ImplementsEqualer(x.t) THEN Call("Equal", x, y)
    ELSE ConvertBranch(x, y)

\* v3
isEqual3(x, y) ==
    IF isNil(x) \/ isNil(y) THEN NilBranch(x, y)
    ELSE IF ImplementsEqualer(x.t) THEN Call("Equal", x, y)
    ELSE IF ImplementsEqualityChecker(x.t) THEN Call("IsEqual", x, y)
    ELSE ConvertBranch(x, y)

isEqualV(v, x, y) == IF v = 2 THEN isEqual(x, y) ELSE isEqual3(x, y)

-----------------------------------------------------------------------------
(* The equality engine applied to every pair of the universe *)

NoOut == [ret |-> FALSE, panic |-> FALSE, calls |-> <<>>]

NoLast == [op |-> "none", src |-> 0, f |-> "", xs |-> <<>>]

\* No check call has ended and no WaitForTrue is in progress.
NoCall == [op |-> "none", ctx |-> 0, args |-> <<>>, ret |-> "none", fails |-> 0,
           panic |-> FALSE, polls |-> 0, sawTrue |-> FALSE]

NoWait == [phase |-> "idle", ctx |-> 0, timeout |-> 0, timer |-> "none", polls |-> 0]

NoOps ==
    /\ call = NoCall
    /\ wait = NoWait

\* No context exists: the state of the variables a harness does not use.
NoCtx ==
    /\ ctx = <<>>
    /\ heap = <<>>
    /\ tblog = <<>>
    /\ running = TRUE
    /\ hist = <<>>
    /\ last = NoLast
    /\ before = <<>>
    /\ scopes = <<>>
    /\ done = <<>>
    /\ NoOps

InitEq ==
    /\ ver \in {2, 3}
    /\ goVersion \in GoVersions
    /\ pc = "start"
    /\ a \in Values
    /\ b \in Values
    /\ out = NoOut
    /\ NoCtx

CallIsEqual ==
    /\ pc = "start"
    /\ out' = isEqualV(ver, a, b)
    /\ pc' = "done"
    /\ UNCHANGED <<ver, goVersion, a, b>>
    /\ UNCHANGED ctxVars
    /\ UNCHANGED laxVars
    /\ UNCHANGED opVars

NextEq == CallIsEqual

SpecEq == InitEq /\ [][NextEq]_vars


-----------------------------------------------------------------------------
(* Go slices of message arguments *)

\* A slice header; arr = 0 is the nil slice.
NilSlice == [arr |-> 0, len |-> 0, cap |-> 0]

\* The elements a slice shows: the first len cells of its backing array.
SliceElems(h, s) == IF s.len = 0 THEN <<>> ELSE SubSeq(h[s.arr], 1, s.len)

\* The slice the compiler builds for a variadic call f(x1, ..., xn):
\* nil for no arguments, else a new array with len = cap = n.
MakeSlice(h, xs) ==
    IF xs = <<>> THEN [heap |-> h, slice |-> NilSlice]
    ELSE [heap |-> Append(h, xs),
          slice |-> [arr |-> Len(h) + 1, len |-> Len(xs), cap |-> Len(xs)]]

\* runtime.growslice for capacities below its threshold of 256 elements and
\* 16-byte elements (every such size up to 16 elements is a size class).
growcap(oldCap, newLen) == IF newLen > 2 * oldCap THEN newLen ELSE 2 * oldCap

Pad(n) == [i \in 1 .. n |-> NilIface]

\* Mutant: append always copies into a new array of exactly the new length.
goAppend_AlwaysCopy(h, s, xs) ==
    IF xs = <<>> THEN [heap |-> h, slice |-> s]
    ELSE [heap |-> Append(h, SliceElems(h, s) \o xs),
          slice |-> [arr |-> Len(h) + 1, len |-> s.len + Len(xs),
                     cap |-> s.len + Len(xs)]]

\* Mutant: append writes from the last shown cell on (off by one).
goAppend_OffByOne(h, s, xs) ==
    IF xs = <<>> \/ s.len = 0 THEN [heap |-> h, slice |-> s]
    ELSE [heap |-> [h EXCEPT ![s.arr] =
                       [i \in 1 .. Len(@) |->
                           IF i >= s.len /\ i < s.len + Len(xs)
                           THEN xs[i - s.len + 1] ELSE @[i]]],
          slice |-> [s EXCEPT !.len = s.len + Len(xs) - 1]]

\* append(s, xs...): in place when the capacity suffices, else into a new array.
goAppend(h, s, xs) ==
    IF xs = <<>> THEN [heap |-> h, slice |-> s]
    ELSE IF s.len + Len(xs) <= s.cap
    THEN [heap |-> [h EXCEPT ![s.arr] =
                       [i \in 1 .. Len(@) |->
                           IF i > s.len /\ i <= s.len + Len(xs)
                           THEN xs[i - s.len] ELSE @[i]]],
          slice |-> [s EXCEPT !.len = s.len + Len(xs)]]
    ELSE LET n == s.len + Len(xs)
             c == growcap(s.cap, n)
         IN  [heap |-> Append(h, SliceElems(h, s) \o xs \o Pad(c - n)),
              slice |-> [arr |-> Len(h) + 1, len |-> n, cap |-> c]]

-----------------------------------------------------------------------------
(* The assertion context: v2 Is and v3 asserter *)

\* Mutant: New returns a lax context.
New_Lax(tb) ==
    [tb |-> tb, strict |-> FALSE, failFormat |-> "", failArgs |-> NilSlice,
     msgSep |-> "", failed |-> FALSE]

\* The nil testing handle.
NilTB == "nil"

\* v2 New(tb): panics on a nil handle; else a strict context with no message.
\* (v2 has no `failed`, v3 no `msgSep`: the field the struct lacks keeps its
\* zero value.)
New(tb) ==
    IF tb = NilTB THEN [panic |-> TRUE]
    ELSE [panic |-> FALSE,
          is |-> [tb |-> tb, strict |-> TRUE, failFormat |-> "", failArgs |-> NilSlice,
                  msgSep |-> "", failed |-> FALSE]]

\* v3 New(tb): log.Fatalln ends the process on a nil handle.
New3(tb) ==
    IF tb = NilTB THEN [exit |-> TRUE]
    ELSE [exit |-> FALSE,
          is |-> [tb |-> tb, strict |-> TRUE, failFormat |-> "", failArgs |-> NilSlice,
                  msgSep |-> "", failed |-> FALSE]]

\* Every builder is a method on a pointer receiver: it yields the receiver as
\* the call leaves it (recv), the struct it returns (new) and the heap.

\* (is *Is) New(tb)
IsNew(h, c, tb) ==
    [recv |-> c, new |-> [c EXCEPT !.tb = tb], heap |-> h]

\* v2 (is *Is) Msg
Msg(h, c, f, xs) ==
    LET m == MakeSlice(h, xs)
    IN  [recv |-> c,
         new |-> [c EXCEPT !.failFormat = f, !.failArgs = m.slice],
         heap |-> m.heap]

\* v3 (self *asserter) Msg: a new struct from tb, strict, format and args.
Msg3(h, c, f, xs) ==
    LET m == MakeSlice(h, xs)
    IN  [recv |-> c,
         new |-> [tb |-> c.tb, strict |-> c.strict, failFormat |-> f,
                  failArgs |-> m.slice, msgSep |-> "", failed |-> FALSE],
         heap |-> m.heap]

MsgSep(h, c, sep) ==
    [recv |-> c, new |-> [c EXCEPT !.msgSep = sep], heap |-> h]

\* Mutant: the separator is always the default.
getMsgSep_Default(c) == " - "

getMsgSep(c) == IF c.msgSep # "" THEN c.msgSep ELSE " - "

\* Mutant: AddMsg extends the receiver's own message too.
AddMsg_InPlace(h, c, f, xs) ==
    IF c.failFormat = "" THEN Msg(h, c, f, xs)
    ELSE LET ap == goAppend(h, c.failArgs, xs)
             n == [c EXCEPT !.failFormat = c.failFormat \o getMsgSep(c) \o f,
                            !.failArgs = ap.slice]
         IN  [recv |-> n, new |-> n, heap |-> ap.heap]

\* v2 (is *Is) AddMsg
AddMsg(h, c, f, xs) ==
    IF c.failFormat = "" THEN Msg(h, c, f, xs)
    ELSE LET ap == goAppend(h, c.failArgs, xs)
         IN  [recv |-> c,
              new |-> [c EXCEPT !.failFormat = c.failFormat \o getMsgSep(c) \o f,
                                !.failArgs = ap.slice],
              heap |-> ap.heap]

\* v3 (self *asserter) AddMsg: the separator is the literal " - ".
AddMsg3(h, c, f, xs) ==
    IF c.failFormat = "" THEN Msg3(h, c, f, xs)
    ELSE LET ap == goAppend(h, c.failArgs, xs)
         IN  [recv |-> c,
              new |-> [tb |-> c.tb, strict |-> c.strict,
                       failFormat |-> c.failFormat \o " - " \o f,
                       failArgs |-> ap.slice, msgSep |-> "", failed |-> FALSE],
              heap |-> ap.heap]

\* v2 (is *Is) PrependMsg: append(args, is.failArgs...), args being the
\* variadic slice (len = cap): args itself when there is nothing to append.
PrependMsg(h, c, f, xs) ==
    IF c.failFormat = "" THEN Msg(h, c, f, xs)
    ELSE LET m == MakeSlice(h, xs)
             ap == goAppend(m.heap, m.slice, SliceElems(h, c.failArgs))
         IN  [recv |-> c,
              new |-> [c EXCEPT !.failFormat = f \o getMsgSep(c) \o c.failFormat,
                                !.failArgs = ap.slice],
              heap |-> ap.heap]

\* Mutant: Lax clears the flag on the receiver as well.
Lax_InPlace(h, c) ==
    [recv |-> [c EXCEPT !.strict = FALSE], new |-> [c EXCEPT !.strict = FALSE],
     heap |-> h]

Lax(h, c) == [recv |-> c, new |-> [c EXCEPT !.strict = FALSE], heap |-> h]

Strict(h, c) == [recv |-> c, new |-> [c EXCEPT !.strict = TRUE], heap |-> h]

\* What a caller can observe of a context.
View(h, c) ==
    [tb |-> c.tb, strict |-> c.strict, failFormat |-> c.failFormat,
     failArgs |-> SliceElems(h, c.failArgs), msgSep |-> c.msgSep]

Views(h, cs) == [i \in 1 .. Len(cs) |-> View(h, cs[i])]

-----------------------------------------------------------------------------
(* Failure dispatch *)

\* Mutant: the bound message comes first.
FailFmt_MessageFirst(v, c, format) ==
    IF c.failFormat # ""
    THEN c.failFormat \o (IF v = 2 THEN getMsgSep(c) ELSE " - ") \o format
    ELSE format

\* The format failDefault hands to the test handle.
FailFmt(v, c, format) ==
    IF c.failFormat # ""
    THEN format \o (IF v = 2 THEN getMsgSep(c) ELSE " - ") \o c.failFormat
    ELSE format

\* The arguments failDefault hands to the test handle.
FailArgs(h, c, args) ==
    IF c.failFormat # "" THEN args \o SliceElems(h, c.failArgs) ELSE args

\* Mutant: every failure is reported through Errorf.
FailFn_AlwaysErrorf(c) == "Errorf"

\* The reporting primitive failDefault calls.
FailFn(c) == IF c.strict THEN "Fatalf" ELSE "Errorf"

\* failDefault(is, format, args...) on context id: the context as it is left
\* (v3 marks it failed), the report, and whether the goroutine goes on.
failDefault(v, h, cs, id, format, args) ==
    LET c == cs[id]
    IN  [ctx |-> IF v = 3 THEN [cs EXCEPT ![id].failed = TRUE] ELSE cs,
         report |-> [ctx |-> id, tb |-> c.tb, fn |-> FailFn(c),
                     format |-> FailFmt(v, c, format),
                     args |-> FailArgs(h, c, args)],
         goes_on |-> FailFn(c) # "Fatalf"]

-----------------------------------------------------------------------------
(* A test that derives contexts from one another and fails checks on them *)

MaxCtx == 4
MaxFails == 2

ArgX == StrVal("x")
ArgY == StrVal("y")
ArgOne == IntVal("int32", 1)

Formats == {"", "a %s"}
ArgSeqs == {<<>>, <<ArgX>>, <<ArgOne, ArgY>>}
Seps == {"", ", "}

\* The failure a check reports: NotErr(errors.New("error")).
FailCases ==
    {[f |-> "expected no error, but got: %v", xs |-> <<ErrVal(20, "error")>>]}

NoEq ==
    /\ pc = "test"
    /\ a = NilIface
    /\ b = NilIface
    /\ out = NoOut

\* is := New(t)
InitCtx ==
    /\ ver \in {2, 3}
    /\ goVersion \in GoVersions
    /\ NoEq
    /\ ctx = <<New("t").is>>
    /\ heap = <<>>
    /\ tblog = <<>>
    /\ running = TRUE
    /\ hist = <<[op |-> "New", from |-> 0, f |-> "", xs |-> <<>>]>>
    /\ last = NoLast
    /\ before = <<>>
    /\ scopes = <<>>
    /\ done = <<>>
    /\ NoOps

\* A builder call on context c that returned r.
Derive(op, c, r, f, xs) ==
    /\ running
    /\ ctx' = Append([ctx EXCEPT ![c] = r.recv], r.new)
    /\ heap' = r.heap
    /\ hist' = Append(hist, [op |-> op, from |-> c, f |-> f, xs |-> xs])
    /\ last' = [op |-> op, src |-> c, f |-> f, xs |-> xs]
    /\ before' = Views(heap, ctx)
    /\ UNCHANGED <<tblog, running>>
    /\ UNCHANGED eqVars
    /\ UNCHANGED laxVars
    /\ UNCHANGED opVars

MsgStep(c, f, xs) ==
    Derive("Msg", c, IF ver = 2 THEN Msg(heap, ctx[c], f, xs)
                     ELSE Msg3(heap, ctx[c], f, xs), f, xs)

AddMsgStep(c, f, xs) ==
    Derive("AddMsg", c, IF ver = 2 THEN AddMsg(heap, ctx[c], f, xs)
                        ELSE AddMsg3(heap, ctx[c], f, xs), f, xs)

PrependMsgStep(c, f, xs) ==
    /\ ver = 2
    /\ Derive("PrependMsg", c, PrependMsg(heap, ctx[c], f, xs), f, xs)

MsgSepStep(c, sep) ==
    /\ ver = 2
    /\ Derive("MsgSep", c, MsgSep(heap, ctx[c], sep), sep, <<>>)

LaxStep(c) ==
    /\ ver = 2
    /\ Derive("Lax", c, Lax(heap, ctx[c]), "", <<>>)

StrictStep(c) ==
    /\ ver = 2
    /\ Derive("Strict", c, Strict(heap, ctx[c]), "", <<>>)

NewStep(c, tb) ==
    /\ ver = 2
    /\ Derive("New", c, IsNew(heap, ctx[c], tb), tb, <<>>)

\* A check on context c does not hold and calls fail(is, f, xs...).
FailedCheck(c, f, xs) ==
    /\ running
    /\ Len(tblog) < MaxFails
    /\ LET r == failDefault(ver, heap, ctx, c, f, xs)
       IN  /\ ctx' = r.ctx
           /\ tblog' = Append(tblog, r.report)
           /\ running' = r.goes_on
    /\ last' = [op |-> "fail", src |-> c, f |-> f, xs |-> xs]
    /\ before' = Views(heap, ctx)
    /\ UNCHANGED <<heap, hist>>
    /\ UNCHANGED eqVars
    /\ UNCHANGED laxVars
    /\ UNCHANGED opVars

Ids == 1 .. Len(ctx)

Room == Len(ctx) < MaxCtx

NextCtx ==
    \/ \E c \in Ids, f \in Formats, xs \in ArgSeqs : Room /\ MsgStep(c, f, xs)
    \/ \E c \in Ids, f \in Formats, xs \in ArgSeqs : Room /\ AddMsgStep(c, f, xs)
    \/ \E c \in Ids, f \in Formats, xs \in ArgSeqs : Room /\ PrependMsgStep(c, f, xs)
    \/ \E c \in Ids, sep \in Seps : Room /\ MsgSepStep(c, sep)
    \/ \E c \in Ids : Room /\ LaxStep(c)
    \/ \E c \in Ids : Room /\ StrictStep(c)
    \/ \E c \in Ids : Room /\ NewStep(c, "sub")
    \/ \E c \in Ids, fc \in FailCases : FailedCheck(c, fc.f, fc.xs)

SpecCtx == InitCtx /\ [][NextCtx]_vars

-----------------------------------------------------------------------------
(* A test that builds its messages with Msg and AddMsg only *)

MaxSiblingCtx == 5

SiblingArgSeqs == {<<ArgX>>, <<ArgY>>, <<ArgOne, ArgY>>}

SiblingRoom == Len(ctx) < MaxSiblingCtx

NextSiblings ==
    \/ \E c \in Ids, xs \in SiblingArgSeqs : SiblingRoom /\ MsgStep(c, "a %s", xs)
    \/ \E c \in Ids, xs \in SiblingArgSeqs : SiblingRoom /\ AddMsgStep(c, "a %s", xs)

SpecSiblings == InitCtx /\ [][NextSiblings]_vars

-----------------------------------------------------------------------------
(* v3: checks inside and around Lax(fn) *)

MaxLaxDepth == 2
MaxLaxCtx == 3
MaxLaxChecks == 3
MaxLaxReports == 2

AggregateFormat == "at least one assertion in the Lax function failed"

\* Mutant: the child of a Lax scope keeps its parent's strictness.
LaxChild_KeepsStrict(c) ==
    [tb |-> c.tb, strict |-> c.strict, failFormat |-> c.failFormat,
     failArgs |-> c.failArgs, msgSep |-> "", failed |-> FALSE]

\* The asserter Lax(fn) hands to fn.
LaxChild(c) ==
    [tb |-> c.tb, strict |-> FALSE, failFormat |-> c.failFormat,
     failArgs |-> c.failArgs, msgSep |-> "", failed |-> FALSE]

\* Mutant: the aggregate failure is dispatched whenever the callback returns.
LaxFailed_Always(c) == TRUE

\* `if lax.failed` after the callback returned.
LaxFailed(c) == c.failed

\* The scopes with a check on context c added to those whose child c is.
Counted(ss, c, failed) ==
    [i \in 1 .. Len(ss) |->
        IF ss[i].child = c
        THEN [ss[i] EXCEPT !.n = @ + 1, !.k = @ + (IF failed THEN 1 ELSE 0)]
        ELSE ss[i]]

InitLax ==
    /\ ver = 3
    /\ goVersion \in GoVersions
    /\ NoEq
    /\ ctx = <<New("t").is>>
    /\ heap = <<>>
    /\ tblog = <<>>
    /\ running = TRUE
    /\ hist = <<[op |-> "New", from |-> 0, f |-> "", xs |-> <<>>]>>
    /\ last = NoLast
    /\ before = <<>>
    /\ scopes = <<>>
    /\ done = <<>>
    /\ NoOps

\* c.Lax(fn) up to the call of fn: the child is built and fn starts.
LaxEnter(c) ==
    /\ running
    /\ Len(scopes) < MaxLaxDepth
    /\ Len(ctx) < MaxLaxCtx
    /\ ctx' = Append(ctx, LaxChild(ctx[c]))
    /\ hist' = Append(hist, [op |-> "Lax", from |-> c, f |-> "", xs |-> <<>>])
    /\ scopes' = Append(scopes, [parent |-> c, child |-> Len(ctx) + 1, n |-> 0, k |-> 0])
    /\ UNCHANGED <<heap, tblog, running, done, last, before>>
    /\ UNCHANGED opVars
    /\ UNCHANGED eqVars

\* c.True(ok), anywhere in the test.
LaxCheck(c, ok) ==
    /\ running
    /\ \A i \in 1 .. Len(scopes) : scopes[i].child = c => scopes[i].n < MaxLaxChecks
    /\ IF ok
       THEN UNCHANGED <<ctx, tblog, running>>
       ELSE /\ Len(tblog) < MaxLaxReports
            /\ LET r == failDefault(ver, heap, ctx, c, "expected boolean to be true", <<>>)
               IN  /\ ctx' = r.ctx
                   /\ tblog' = Append(tblog, r.report)
                   /\ running' = r.goes_on
    /\ scopes' = Counted(scopes, c, ~ok)
    /\ UNCHANGED <<heap, hist, done, last, before>>
    /\ UNCHANGED opVars
    /\ UNCHANGED eqVars

\* fn returned: Lax reads the child's flag and fails on its own receiver. The
\* call is itself an operation on that receiver, which may be the child of
\* the enclosing scope.
LaxReturn ==
    /\ running
    /\ Len(scopes) > 0
    /\ LET s == scopes[Len(scopes)]
           rest == SubSeq(scopes, 1, Len(scopes) - 1)
           agg == LaxFailed(ctx[s.child])
           r == failDefault(ver, heap, ctx, s.parent, AggregateFormat, <<>>)
       IN  /\ agg => Len(tblog) < MaxLaxReports + MaxLaxDepth
           /\ IF agg
              THEN /\ ctx' = r.ctx
                   /\ tblog' = Append(tblog, r.report)
                   /\ running' = r.goes_on
              ELSE UNCHANGED <<ctx, tblog, running>>
           /\ scopes' = Counted(rest, s.parent, agg)
           /\ done' = Append(done, [parent |-> s.parent, child |-> s.child,
                                    n |-> s.n, k |-> s.k,
                                    agg |-> IF agg THEN 1 ELSE 0,
                                    strict |-> ctx[s.parent].strict])
    /\ UNCHANGED <<heap, hist, last, before>>
    /\ UNCHANGED opVars
    /\ UNCHANGED eqVars

LaxRoom == Len(ctx) < MaxLaxCtx

NextLax ==
    \/ \E c \in Ids : LaxEnter(c)
    \/ \E c \in Ids, ok \in BOOLEAN : LaxCheck(c, ok)
    \/ LaxReturn
    \/ \E c \in Ids : LaxRoom /\ MsgStep(c, "a %s", <<ArgX>>)
    \/ \E c \in Ids : LaxRoom /\ AddMsgStep(c, "a %s", <<ArgX>>)

SpecLax == InitLax /\ [][NextLax]_vars

-----------------------------------------------------------------------------
(* The check operations *)

\* The address of the value reflect.New allocates.
NewAddr == 99

\* reflect.Zero(t).Interface()
reflectZero(t) == IF Kind(t) = "Func" THEN NilOf(t) ELSE mk(t, FALSE, 0, 0, "", <<>>)

\* Mutant: every kind is compared with its type's zero value.
isZero_DeepEqualOnly(o) ==
    IF o = NilIface THEN TRUE
    ELSE DeepEqual(o, reflectZero(o.t))

isZero(o) ==
    IF o = NilIface THEN TRUE
    ELSE CASE Kind(o.t) = "Ptr" -> DeepEqual(o, PtrVal(o.t, NewAddr, 0))
           [] Kind(o.t) \in {"Slice", "Array", "Map", "Chan"} -> Len(o.q) = 0
           [] OTHER -> DeepEqual(o, reflectZero(o.t))

\* fmt.Sprintf("%T", o)
objectTypeName(o) == IF o = NilIface THEN "<nil>" ELSE o.t

\* The variadic parameter b ...any as a value: nil when no argument is passed.
AnySlice(ys) ==
    IF ys = <<>> THEN NilOf("[]interface {}") ELSE SeqVal("[]interface {}", 0, ys)

RECURSIVE JoinTypeNames(_, _)
JoinTypeNames(ys, i) ==
    IF i > Len(ys) THEN ""
    ELSE "," \o objectTypeName(ys[i]) \o JoinTypeNames(ys, i + 1)

objectTypeNames(ys) ==
    IF ys = <<>> THEN objectTypeName(AnySlice(ys))
    ELSE IF Len(ys) = 1 THEN objectTypeName(ys[1])
    ELSE objectTypeName(ys[1]) \o JoinTypeNames(ys, 2)

\* What a check operation does: the value it returns when it returns one,
\* the failure it hands to fail(), and whether it panics instead.
Pass == [ret |-> "true", fail |-> <<>>, panic |-> FALSE]
Failure(format, args) ==
    [ret |-> "false", fail |-> <<[format |-> format, args |-> args]>>, panic |-> FALSE]
Fault == [ret |-> "none", fail |-> <<>>, panic |-> TRUE]

\* The text cmp.Diff prints for two values that differ.
cmpDiff == "cmp.Diff"

\* json.Marshal of a slice followed by json.Unmarshal into a []any.
jsonSlice(x) == [nil |-> x.nil, q |-> x.q]

\* v3 diff(actual, expected): reflect.TypeOf(nil).Kind() panics; a JSON object
\* does not unmarshal into a map[any]any, so two maps have no diff.
diff(actual, expected) ==
    IF actual = NilIface \/ expected = NilIface THEN [s |-> "", panic |-> TRUE]
    ELSE IF Kind(actual.t) # Kind(expected.t) THEN [s |-> "", panic |-> FALSE]
    ELSE IF Kind(actual.t) = "Slice" /\ jsonSlice(actual) # jsonSlice(expected)
         THEN [s |-> " - Diff:\n" \o cmpDiff, panic |-> FALSE]
    ELSE [s |-> "", panic |-> FALSE]

Equal(v, actual, expected) ==
    LET e == isEqualV(v, actual, expected)
        d == diff(actual, expected)
    IN  IF e.panic THEN Fault
        ELSE IF e.ret THEN Pass
        ELSE IF v = 2
             THEN Failure("got '%v' (%s). expected '%v' (%s)",
                          <<actual, StrVal(objectTypeName(actual)),
                            expected, StrVal(objectTypeName(expected))>>)
        ELSE IF d.panic THEN Fault
        ELSE Failure("actual value '%v' (%s) should be equal to expected value '%v' (%s)%s",
                     <<actual, StrVal(objectTypeName(actual)),
                       expected, StrVal(objectTypeName(expected)), StrVal(d.s)>>)

NotEqual(v, x, y) ==
    LET e == isEqualV(v, x, y)
    IN  IF e.panic THEN Fault
        ELSE IF ~e.ret THEN Pass
        ELSE IF v = 2
             THEN Failure("expected objects '%s' and '%s' not to be equal",
                          <<StrVal(objectTypeName(x)), StrVal(objectTypeName(y))>>)
        ELSE Failure("actual value '%v' (%s) should not be equal to expected value '%v' (%s)",
                     <<x, StrVal(objectTypeName(x)), y, StrVal(objectTypeName(y))>>)

\* The loop of OneOf and NotOneOf from element i on: `result` when it ends.
RECURSIVE AnyEqual(_, _, _, _)
AnyEqual(v, x, ys, i) ==
    IF i > Len(ys) THEN Ret(FALSE)
    ELSE LET e == isEqualV(v, x, ys[i])
         IN  IF e.panic THEN Panic
             ELSE IF e.ret THEN Ret(TRUE)
             ELSE AnyEqual(v, x, ys, i + 1)

OneOf(v, x, ys) ==
    LET e == AnyEqual(v, x, ys, 1)
    IN  IF e.panic THEN Fault
        ELSE IF e.ret THEN Pass
        ELSE Failure(IF v = 2
                     THEN "expected object '%s' to be equal to one of '%s', but got: %#v and %#v"
                     ELSE "expected object '%s' to be equal to one of '%s', but got: %v and %v",
                     <<StrVal(objectTypeName(x)), StrVal(objectTypeNames(ys)),
                       x, AnySlice(ys)>>)

NotOneOf(v, x, ys) ==
    LET e == AnyEqual(v, x, ys, 1)
    IN  IF e.panic THEN Fault
        ELSE IF ~e.ret THEN Pass
        ELSE Failure("expected object '%s' not to be equal to one of '%s', but got: %v and %v",
                     <<StrVal(objectTypeName(x)), StrVal(objectTypeNames(ys)),
                       x, AnySlice(ys)>>)

\* strings.Contains
stringsContains(s, sub) ==
    \E i \in 1 .. (Len(s) - Len(sub) + 1) : SubSeq(s, i, i + Len(sub) - 1) = sub

\* The element type of a slice type.
ElemType(t) == CASE t = "[]int16" -> "int16"

\* alist.Index(i).Interface()
Index(x, i) == IntVal(ElemType(x.t), x.q[i])

\* The membership loop of Contains from element i on.
RECURSIVE ElemEqual(_, _, _)
ElemEqual(x, y, i) ==
    IF i > Len(x.q) THEN Ret(FALSE)
    ELSE LET e == isEqual(Index(x, i), y)
         IN  IF e.panic THEN Panic
             ELSE IF e.ret THEN Ret(TRUE)
             ELSE ElemEqual(x, y, i + 1)

\* reflect.TypeOf(a).Kind() == reflect.String: a nil dereference when a is nil.
isString(x) == IF x = NilIface THEN Panic ELSE Ret(Kind(x.t) = "String")

isSlice(x) == IF x = NilIface THEN Panic ELSE Ret(Kind(x.t) = "Slice")

\* v2 only
Contains(x, y) ==
    IF isString(x).panic THEN Fault
    ELSE IF isString(x).ret /\ isString(y).panic THEN Fault
    ELSE IF isString(x).ret /\ isString(y).ret
         THEN IF stringsContains(x.s, y.s) THEN Pass
              ELSE Failure("%#v expected to contain %#v", <<x, y>>)
    ELSE IF isSlice(x).ret
         THEN LET e == ElemEqual(x, y, 1)
              IN  IF e.panic THEN Fault
                  ELSE IF e.ret THEN Pass
                  ELSE Failure("%#v expected to contain %#v", <<x, y>>)
    ELSE Failure("unexpected argument types %T and %T", <<x, y>>)

Err(e) == IF isNil(e) THEN Failure("expected error", <<>>) ELSE Pass

\* v2 only; e.Error() is the message of the error value.
ErrMsg(e, expectedMsg) ==
    IF isNil(e) THEN Failure("expected error %#v", <<StrVal(expectedMsg)>>)
    ELSE Equal(2, StrVal(e.s), StrVal(expectedMsg))

NotErr(e) ==
    IF ~isNil(e) THEN Failure("expected no error, but got: %v", <<e>>) ELSE Pass

Nil(o) ==
    IF ~isNil(o)
    THEN Failure("expected object '%s' to be nil, but got: %v",
                 <<StrVal(objectTypeName(o)), o>>)
    ELSE Pass

NotNil(o) ==
    IF isNil(o)
    THEN Failure("expected object '%s' not to be nil", <<StrVal(objectTypeName(o))>>)
    ELSE Pass

True(x) == IF ~x THEN Failure("expected boolean to be true", <<>>) ELSE Pass

False(x) == IF x THEN Failure("expected boolean to be false", <<>>) ELSE Pass

Zero(o) ==
    IF ~isZero(o)
    THEN Failure("expected object '%s' to be zero value, but it was: %v",
                 <<StrVal(objectTypeName(o)), o>>)
    ELSE Pass

NotZero(o) ==
    IF isZero(o)
    THEN Failure("expected object '%s' not to be zero value", <<StrVal(objectTypeName(o))>>)
    ELSE Pass

Len_(o, l) ==
    IF o = NilIface \/ Kind(o.t) \notin {"Array", "Slice", "Map"}
    THEN Failure("expected object '%s' to be of length '%d', but the object is not one of array, slice or map",
                 <<StrVal(objectTypeName(o)), IntVal("int32", l)>>)
    ELSE IF Len(o.q) # l
    THEN Failure("expected object '%s' to be of length '%d' but it was: %d",
                 <<StrVal(objectTypeName(o)), IntVal("int32", l), IntVal("int32", Len(o.q))>>)
    ELSE Pass

\* What recover() can return after f(): nil when f returned; the panic value
\* when f panicked. For panic(nil) that is nil in a build with the semantics
\* of Go 1.20 and before, a *runtime.PanicNilError otherwise.
Recovered(f) ==
    CASE f = "returns" -> {"nil"}
      [] f = "panics" -> {"value"}
      [] OTHER -> {"nil", "PanicNilError"}

\* The deferred function of ShouldPanic, r being what recover() returned.
ShouldPanic(r) ==
    IF r = "nil" THEN [Failure("expected function to panic", <<>>) EXCEPT !.ret = "none"]
    ELSE [Pass EXCEPT !.ret = "none"]

EqualType(expected, actual) ==
    IF expected.t # actual.t
    THEN Failure("expected objects '%s' to be of the same type as object '%s'",
                 <<StrVal(objectTypeName(expected)), StrVal(objectTypeName(actual))>>)
    ELSE Pass

\* v2 only: (is *Is) IsType(expectedType, actual); a reflect.Type is its name, and
\* reflect.TypeOf(nil) is the nil Type.
IsType(expectedType, actual) ==
    IF expectedType # (IF actual = NilIface THEN "<nil>" ELSE actual.t)
    THEN Failure("expected objects '%s' to be of the same type as object '%s'",
                 <<StrVal(expectedType), StrVal(objectTypeName(actual))>>)
    ELSE Pass

\* v2 only: (is *Is) Fail(msg) hands msg to fail() as the format.
Fail(msg) == [Failure(msg, <<>>) EXCEPT !.ret = "none"]

-----------------------------------------------------------------------------
(* isNil and isZero applied to every value of the universe *)

InitNilZero ==
    /\ ver \in {2, 3}
    /\ goVersion \in GoVersions
    /\ pc = "start"
    /\ a \in Values
    /\ b = NilIface
    /\ out = NoOut
    /\ NoCtx

CallNilZero ==
    /\ pc = "start"
    /\ out' = [nil |-> isNil(a), zero |-> isZero(a)]
    /\ pc' = "done"
    /\ UNCHANGED <<ver, goVersion, a, b>>
    /\ UNCHANGED ctxVars
    /\ UNCHANGED laxVars
    /\ UNCHANGED opVars

NextNilZero == CallNilZero

SpecNilZero == InitNilZero /\ [][NextNilZero]_vars

-----------------------------------------------------------------------------
(* A test that calls the check operations on its contexts *)

MaxOpCtx == 2
MaxOpFails == 2
MaxPolls == 2

EqOperands ==
    {NilIface, IntVal("int8", 0), IntVal("int8", 1), IntVal("int16", 0), NilOf("[]int")}

NotEqOperands == {NilIface, IntVal("int8", 0), IntVal("int16", 0)}

OneOfOperands == {IntVal("int8", 0), IntVal("int8", 1)}

OneOfLists == {<<>>, <<IntVal("int8", 1)>>, <<IntVal("int8", 1), IntVal("int16", 0)>>}

Containers ==
    {NilIface, StrVal("hello"), SeqVal("[]int16", 17, <<0, 1>>),
     SeqVal("[3]int", 0, <<1, 2, 3>>)}

Items == {NilIface, StrVal("ell"), StrVal("A"), IntVal("int8", 1)}

Errors == {NilIface, ErrVal(20, "error"), NilOf("*errors.errorString")}

ErrMsgs == {"error", "hello"}

NilObjects ==
    {NilIface, IntVal("int8", 0), NilOf("[]int"), SeqVal("[]int", 9, <<>>),
     NilOf("*testStruct"), PtrVal("*testStruct", 1, 0)}

ZeroObjects ==
    {NilIface, IntVal("int8", 0), IntVal("int8", 1), NilOf("[]int"),
     SeqVal("[]int", 10, <<0, 1>>), NilOf("*testStruct"), PtrVal("*testStruct", 1, 0),
     SeqVal("[3]int", 0, <<1, 2, 3>>)}

LenObjects ==
    {NilIface, IntVal("int8", 1), SeqVal("[]int", 10, <<0, 1>>),
     SeqVal("[3]int", 0, <<1, 2, 3>>)}

Lengths == {0, 2}

Callbacks == {"returns", "panics", "panics nil"}

TypeOperands == {NilIface, IntVal("int8", 0)}

Timeouts == {0, 200}

FailMsgs == {"boom"}

DurVal(ms) == mk("time.Duration", FALSE, 0, ms, "", <<>>)

\* is := New(t)
InitOps ==
    /\ ver \in {2, 3}
    /\ goVersion \in GoVersions
    /\ NoEq
    /\ ctx = <<New("t").is>>
    /\ heap = <<>>
    /\ tblog = <<>>
    /\ running = TRUE
    /\ hist = <<[op |-> "New", from |-> 0, f |-> "", xs |-> <<>>]>>
    /\ last = NoLast
    /\ before = <<>>
    /\ scopes = <<>>
    /\ done = <<>>
    /\ NoOps

\* The test goroutine is between two calls.
Idle == running /\ wait.phase = "idle" /\ Len(tblog) < MaxOpFails

\* A call of operation op on context c ends as o says: a panic unwinds the
\* test, a failure goes through fail() and Fatalf does not return.
Ends(c, op, args, o, polls, sawTrue) ==
    /\ IF o.panic
       THEN /\ running' = FALSE
            /\ UNCHANGED <<ctx, tblog>>
            /\ call' = [op |-> op, ctx |-> c, args |-> args, ret |-> "none", fails |-> 0,
                        panic |-> TRUE, polls |-> polls, sawTrue |-> sawTrue]
       ELSE IF o.fail # <<>>
       THEN LET r == failDefault(ver, heap, ctx, c, o.fail[1].format, o.fail[1].args)
            IN  /\ ctx' = r.ctx
                /\ tblog' = Append(tblog, r.report)
                /\ running' = r.goes_on
                /\ call' = [op |-> op, ctx |-> c, args |-> args,
                            ret |-> IF r.goes_on /\ ver = 2 THEN o.ret ELSE "none",
                            fails |-> Len(tblog') - Len(tblog),
                            panic |-> FALSE, polls |-> polls, sawTrue |-> sawTrue]
       ELSE /\ UNCHANGED <<ctx, tblog, running>>
            /\ call' = [op |-> op, ctx |-> c, args |-> args,
                        ret |-> IF ver = 2 THEN o.ret ELSE "none",
                        fails |-> 0, panic |-> FALSE, polls |-> polls, sawTrue |-> sawTrue]
    /\ UNCHANGED <<heap, hist, last, before>>
    /\ UNCHANGED eqVars
    /\ UNCHANGED laxVars

Check(c, op, args, o) ==
    /\ Idle
    /\ Ends(c, op, args, o, 0, FALSE)
    /\ UNCHANGED wait

EqualCall(c, x, y) == Check(c, "Equal", <<x, y>>, Equal(ver, x, y))

NotEqualCall(c, x, y) == Check(c, "NotEqual", <<x, y>>, NotEqual(ver, x, y))

OneOfCall(c, x, ys) == Check(c, "OneOf", <<x, ys>>, OneOf(ver, x, ys))

NotOneOfCall(c, x, ys) == Check(c, "NotOneOf", <<x, ys>>, NotOneOf(ver, x, ys))

ContainsCall(c, x, y) == ver = 2 /\ Check(c, "Contains", <<x, y>>, Contains(x, y))

ErrCall(c, e) == Check(c, "Err", <<e>>, Err(e))

ErrMsgCall(c, e, m) == ver = 2 /\ Check(c, "ErrMsg", <<e, m>>, ErrMsg(e, m))

NotErrCall(c, e) == Check(c, "NotErr", <<e>>, NotErr(e))

NilCall(c, o) == Check(c, "Nil", <<o>>, Nil(o))

NotNilCall(c, o) == Check(c, "NotNil", <<o>>, NotNil(o))

TrueCall(c, x) == Check(c, "True", <<x>>, True(x))

FalseCall(c, x) == Check(c, "False", <<x>>, False(x))

ZeroCall(c, o) == Check(c, "Zero", <<o>>, Zero(o))

NotZeroCall(c, o) == Check(c, "NotZero", <<o>>, NotZero(o))

LenCall(c, o, l) == Check(c, "Len", <<o, l>>, Len_(o, l))

ShouldPanicCall(c, f) ==
    \E r \in Recovered(f) : Check(c, "ShouldPanic", <<f, r>>, ShouldPanic(r))

EqualTypeCall(c, x, y) == Check(c, "EqualType", <<x, y>>, EqualType(x, y))

IsTypeCall(c, t, x) == ver = 2 /\ Check(c, "IsType", <<t, x>>, IsType(t, x))

FailCall(c, msg) == ver = 2 /\ Check(c, "Fail", <<msg>>, Fail(msg))

\* New(tb) called by the test: on a nil handle v2 panics and v3 ends the
\* process; else the test holds one more strict context.
NewCall(tb) ==
    /\ Idle
    /\ LET ended == IF ver = 2 THEN New(tb).panic ELSE New3(tb).exit
       IN  IF ended
           THEN /\ running' = FALSE
                /\ call' = [NoCall EXCEPT !.op = "New", !.args = <<tb>>,
                                          !.panic = (ver = 2),
                                          !.ret = IF ver = 2 THEN "none" ELSE "exit"]
                /\ UNCHANGED <<ctx, hist>>
           ELSE /\ Len(ctx) < MaxOpCtx
                /\ ctx' = Append(ctx, IF ver = 2 THEN New(tb).is ELSE New3(tb).is)
                /\ hist' = Append(hist, [op |-> "New", from |-> 0, f |-> "", xs |-> <<>>])
                /\ call' = [NoCall EXCEPT !.op = "New", !.ctx = Len(ctx) + 1,
                                          !.args = <<tb>>]
                /\ UNCHANGED running
    /\ UNCHANGED <<heap, tblog, last, before, wait>>
    /\ UNCHANGED eqVars
    /\ UNCHANGED laxVars

\* c.WaitForTrue(timeout, f) up to the loop: after := time.After(timeout)
WaitForTrueCall(c, timeout) ==
    /\ Idle
    /\ wait' = [phase |-> "loop", ctx |-> c, timeout |-> timeout,
                timer |-> "pending", polls |-> 0]
    /\ call' = NoCall
    /\ UNCHANGED <<ctx, heap, tblog, running, hist, last, before>>
    /\ UNCHANGED eqVars
    /\ UNCHANGED laxVars

\* The runtime sends on the channel of time.After.
TimerFires ==
    /\ running
    /\ wait.phase = "loop"
    /\ wait.timer = "pending"
    /\ wait' = [wait EXCEPT !.timer = "fired"]
    /\ UNCHANGED <<call, ctx, heap, tblog, running, hist, last, before>>
    /\ UNCHANGED eqVars
    /\ UNCHANGED laxVars

\* Mutant: the timeout ends the call without reporting a failure.
WaitTimeout_Silent ==
    /\ running
    /\ wait.phase = "loop"
    /\ wait.timer = "fired"
    /\ Ends(wait.ctx, "WaitForTrue", <<wait.timeout>>,
            [Pass EXCEPT !.ret = "none"], wait.polls, FALSE)
    /\ wait' = NoWait

\* select, case <-after
WaitTimeout ==
    /\ running
    /\ wait.phase = "loop"
    /\ wait.timer = "fired"
    /\ Ends(wait.ctx, "WaitForTrue", <<wait.timeout>>,
            [Failure("function did not return true within the timeout of %v",
                     <<DurVal(wait.timeout)>>) EXCEPT !.ret = "none"],
            wait.polls, FALSE)
    /\ wait' = NoWait

\* select, default: f() returned r, and the loop sleeps when r is false.
WaitPoll(r) ==
    /\ running
    /\ wait.phase = "loop"
    /\ wait.timer = "pending"
    /\ wait.polls < MaxPolls
    /\ IF r
       THEN /\ Ends(wait.ctx, "WaitForTrue", <<wait.timeout>>,
                    [Pass EXCEPT !.ret = "none"], wait.polls + 1, TRUE)
            /\ wait' = NoWait
       ELSE /\ wait' = [wait EXCEPT !.polls = @ + 1]
            /\ UNCHANGED <<call, ctx, heap, tblog, running, hist, last, before>>
            /\ UNCHANGED eqVars
            /\ UNCHANGED laxVars

\* lax := is.Lax()
OpsLax(c) ==
    /\ Idle
    /\ Len(ctx) < MaxOpCtx
    /\ LaxStep(c)

NextOps ==
    \/ \E c \in Ids, x \in EqOperands, y \in EqOperands : EqualCall(c, x, y)
    \/ \E c \in Ids, x \in NotEqOperands, y \in NotEqOperands : NotEqualCall(c, x, y)
    \/ \E c \in Ids, x \in OneOfOperands, ys \in OneOfLists : OneOfCall(c, x, ys)
    \/ \E c \in Ids, x \in OneOfOperands, ys \in OneOfLists : NotOneOfCall(c, x, ys)
    \/ \E c \in Ids, x \in Containers, y \in Items : ContainsCall(c, x, y)
    \/ \E c \in Ids, e \in Errors : ErrCall(c, e)
    \/ \E c \in Ids, e \in Errors, m \in ErrMsgs : ErrMsgCall(c, e, m)
    \/ \E c \in Ids, e \in Errors : NotErrCall(c, e)
    \/ \E c \in Ids, o \in NilObjects : NilCall(c, o)
    \/ \E c \in Ids, o \in NilObjects : NotNilCall(c, o)
    \/ \E c \in Ids, x \in BOOLEAN : TrueCall(c, x)
    \/ \E c \in Ids, x \in BOOLEAN : FalseCall(c, x)
    \/ \E c \in Ids, o \in ZeroObjects : ZeroCall(c, o)
    \/ \E c \in Ids, o \in ZeroObjects : NotZeroCall(c, o)
    \/ \E c \in Ids, o \in LenObjects, l \in Lengths : LenCall(c, o, l)
    \/ \E c \in Ids, f \in Callbacks : ShouldPanicCall(c, f)
    \/ \E c \in Ids, x \in TypeOperands, y \in TypeOperands : EqualTypeCall(c, x, y)
    \/ \E c \in Ids, t \in {"int8", "int16"}, x \in TypeOperands : IsTypeCall(c, t, x)
    \/ \E c \in Ids, msg \in FailMsgs : FailCall(c, msg)
    \/ \E tb \in {"t", NilTB} : NewCall(tb)
    \/ \E c \in Ids, timeout \in Timeouts : WaitForTrueCall(c, timeout)
    \/ TimerFires
    \/ WaitTimeout
    \/ \E r \in BOOLEAN : WaitPoll(r)
    \/ \E c \in Ids : OpsLax(c)

SpecOps == InitOps /\ [][NextOps]_vars

\* The test goroutine keeps running and the timer of time.After fires: once
\* the timer fired the select takes its first case.
SpecOpsFair == SpecOps /\ WF_vars(TimerFires) /\ WF_vars(WaitTimeout)

-----------------------------------------------------------------------------
(* A test that compares values of the hooked fixture type, as TestEqualer *)

\* a := &equaler{equal: true}; b := &equaler{}
HookedA == PtrVal("*equaler", 4, 1)
PlainB == PtrVal("*equaler", 5, 0)

HookOperands ==
    {HookedA, PlainB, PtrVal("*equaler", 6, 1), NilOf("*equaler"), IntVal("int8", 1)}

NextHooks ==
    \/ \E c \in Ids, x \in HookOperands, y \in HookOperands : EqualCall(c, x, y)
    \/ \E c \in Ids, x \in HookOperands, y \in HookOperands : NotEqualCall(c, x, y)
    \/ \E c \in Ids : OpsLax(c)

SpecHooks == InitOps /\ [][NextHooks]_vars

-----------------------------------------------------------------------------
(***************************************************************************)
(* The require package: each wrapper builds a strict v2 context from the   *)
(* test handle, hands the optional message to AddMsg and runs the wrapped  *)
(* check on the context it built.                                          *)
(***************************************************************************)

MaxRequireCtx == 4

\* msgAndArgs: nothing, or a format followed by its arguments.
RequireMsgs == {<<>>, <<"a %s", ArgX>>, <<"note">>}

\* msg and args of EqualValuesf.
RequireMsgfs == {<<"">>, <<"a %s", ArgX>>}

RequireOps ==
    {"require.Contains", "require.Equal", "require.EqualError", "require.EqualValuesf",
     "require.Error", "require.False", "require.IsType", "require.Len", "require.Nil",
     "require.NoError", "require.NotNil", "require.Panics", "require.True"}

InitRequire ==
    /\ ver = 2
    /\ goVersion \in GoVersions
    /\ NoEq
    /\ ctx = <<>>
    /\ heap = <<>>
    /\ tblog = <<>>
    /\ running = TRUE
    /\ hist = <<>>
    /\ last = NoLast
    /\ before = <<>>
    /\ scopes = <<>>
    /\ done = <<>>
    /\ NoOps

\* One check of a wrapper on context id, from the state st the wrapper has
\* reached: nothing runs after a panic or after Fatalf.
RequireCheck(st, id, o) ==
    IF ~st.running THEN st
    ELSE IF o.panic THEN [st EXCEPT !.running = FALSE, !.panic = TRUE]
    ELSE IF o.fail # <<>>
    THEN LET r == failDefault(2, st.heap, st.ctx, id, o.fail[1].format, o.fail[1].args)
         IN  [st EXCEPT !.ctx = r.ctx, !.tblog = Append(@, r.report),
                        !.running = r.goes_on, !.fails = @ + 1]
    ELSE st

RECURSIVE RequireChecks(_, _, _)
RequireChecks(st, id, os) ==
    IF os = <<>> THEN st
    ELSE RequireChecks(RequireCheck(st, id, Head(os)), id, Tail(os))

\* The body every wrapper shares: is := is.New(t); is.AddMsg(format, rest...)
\* when a message was given, its result dropped; then the checks os on is.
Require(op, args, m, os) ==
    /\ running
    /\ Len(ctx) + 2 <= MaxRequireCtx
    /\ LET id == Len(ctx) + 1
           c0 == New("t").is
           am == AddMsg(heap, c0, Head(m), Tail(m))
           cs == IF m = <<>> THEN Append(ctx, c0) ELSE ctx \o <<am.recv, am.new>>
           hs == IF m = <<>>
                 THEN Append(hist, [op |-> "New", from |-> 0, f |-> "", xs |-> <<>>])
                 ELSE hist \o <<[op |-> "New", from |-> 0, f |-> "", xs |-> <<>>],
                                [op |-> "AddMsg", from |-> id, f |-> Head(m),
                                 xs |-> Tail(m)]>>
           st == RequireChecks([ctx |-> cs, heap |-> IF m = <<>> THEN heap ELSE am.heap,
                                tblog |-> tblog, running |-> TRUE, fails |-> 0,
                                panic |-> FALSE], id, os)
       IN  /\ ctx' = st.ctx
           /\ heap' = st.heap
           /\ tblog' = st.tblog
           /\ running' = st.running
           /\ hist' = hs
           /\ call' = [op |-> op, ctx |-> id, args |-> Append(args, m), ret |-> "none",
                       fails |-> st.fails, panic |-> st.panic, polls |-> 0,
                       sawTrue |-> FALSE]
    /\ UNCHANGED <<last, before, wait>>
    /\ UNCHANGED eqVars
    /\ UNCHANGED laxVars

RequireContains(s, contains, m) ==
    Require("require.Contains", <<s, contains>>, m, <<Contains(s, contains)>>)

\* is.Equal(actual, expected)
RequireEqual(expected, actual, m) ==
    Require("require.Equal", <<expected, actual>>, m, <<Equal(2, actual, expected)>>)

RequireEqualError(theError, errString, m) ==
    Require("require.EqualError", <<theError, errString>>, m,
            <<ErrMsg(theError, errString)>>)

\* is.AddMsg(msg, args...) whatever msg is; then Equal and EqualType.
RequireEqualValuesf(expected, actual, m) ==
    Require("require.EqualValuesf", <<expected, actual>>, m,
            <<Equal(2, actual, expected), EqualType(expected, actual)>>)

RequireError(err, m) == Require("require.Error", <<err>>, m, <<Err(err)>>)

RequireFalse(value, m) == Require("require.False", <<value>>, m, <<False(value)>>)

RequireIsType(expectedType, object, m) ==
    Require("require.IsType", <<expectedType, object>>, m,
            <<IsType(expectedType, object)>>)

RequireLen(object, length, m) ==
    Require("require.Len", <<object, length>>, m, <<Len_(object, length)>>)

RequireNil(object, m) == Require("require.Nil", <<object>>, m, <<Nil(object)>>)

RequireNoError(err, m) == Require("require.NoError", <<err>>, m, <<NotErr(err)>>)

RequireNotNil(object, m) == Require("require.NotNil", <<object>>, m, <<NotNil(object)>>)

RequirePanics(f, m) ==
    \E r \in Recovered(f) : Require("require.Panics", <<f, r>>, m, <<ShouldPanic(r)>>)

RequireTrue(value, m) == Require("require.True", <<value>>, m, <<True(value)>>)

RequireErrors == {NilIface, ErrVal(20, "error")}

NextRequire ==
    \/ \E s \in {StrVal("hello")}, x \in {StrVal("ell"), StrVal("A")}, m \in RequireMsgs :
          RequireContains(s, x, m)
    \/ \E x \in {IntVal("int8", 0)}, y \in {IntVal("int8", 0), IntVal("int8", 1)},
          m \in RequireMsgs : RequireEqual(x, y, m)
    \/ \E e \in {ErrVal(20, "error")}, s \in ErrMsgs, m \in RequireMsgs :
          RequireEqualError(e, s, m)
    \/ \E x \in {IntVal("int8", 0)},
          y \in {IntVal("int8", 0), IntVal("int8", 1), IntVal("int16", 0)},
          m \in RequireMsgfs : RequireEqualValuesf(x, y, m)
    \/ \E e \in RequireErrors, m \in RequireMsgs : RequireError(e, m)
    \/ \E x \in BOOLEAN, m \in RequireMsgs : RequireFalse(x, m)
    \/ \E t \in {"int8", "int16"}, m \in RequireMsgs :
          RequireIsType(t, IntVal("int8", 0), m)
    \/ \E l \in Lengths, m \in RequireMsgs :
          RequireLen(SeqVal("[]int", 10, <<0, 1>>), l, m)
    \/ \E o \in {NilIface, IntVal("int8", 0)}, m \in RequireMsgs : RequireNil(o, m)
    \/ \E e \in RequireErrors, m \in RequireMsgs : RequireNoError(e, m)
    \/ \E o \in {NilIface, IntVal("int8", 0)}, m \in RequireMsgs : RequireNotNil(o, m)
    \/ \E f \in Callbacks, m \in RequireMsgs : RequirePanics(f, m)
    \/ \E x \in BOOLEAN, m \in RequireMsgs : RequireTrue(x, m)

SpecRequire == InitRequire /\ [][NextRequire]_vars

-----------------------------------------------------------------------------

(* Claims about the equality engine, checked under SpecEq *)

HasHook(v, t) == ImplementsEqualer(t) \/ (v = 3 /\ ImplementsEqualityChecker(t))

\* C1 (as stated): when at least one operand is nil-like, isEqual returns
\* true exactly when both are nil-like, for every combination of nil-like
\* values, and it returns (it does not panic).
C1_NilLikeEqualIffBothNilLike ==
    (pc = "done" /\ (isNil(a) \/ isNil(b)))
        => (~out.panic /\ (out.ret <=> (isNil(a) /\ isNil(b))))

\* C2: for non-nil-like operands where a's type implements an equality hook,
\* isEqual returns what a's hook returns for b, and the only hook invoked is
\* a's, once, with b as its argument.
C2_LeftHookDecides ==
    (pc = "done" /\ ~isNil(a) /\ ~isNil(b) /\ HasHook(ver, a.t))
        => /\ ~out.panic
           /\ out.ret = equaler_Equal(a, b)
           /\ Len(out.calls) = 1
           /\ out.calls[1].recv = a
           /\ out.calls[1].arg = b

\* C2 witness: both operands are hooked, the hooks' fields differ, the left
\* hook was called and its false result returned; in v3 through IsEqual too.
C2_Witness ==
    /\ pc = "done"
    /\ ver = 3
    /\ a = PtrVal("*checker", 7, 1)
    /\ b = PtrVal("*equaler", 5, 0)
    /\ out.ret = FALSE
    /\ out.calls = <<[method |-> "IsEqual", recv |-> a, arg |-> b]>>

\* C3: the same integer held in any two integer kinds that can represent it
\* compares equal.
C3_SameIntegerAcrossKinds ==
    (pc = "done" /\ a.t \in IntTypes /\ b.t \in IntTypes /\ a.n = b.n)
        => (out.ret /\ ~out.panic)

\* C3 witness: 255 as int16 against 255 as uint8 compared equal.
C3_Witness ==
    /\ pc = "done"
    /\ a = IntVal("int16", 255)
    /\ b = IntVal("uint8", 255)
    /\ out.ret

-----------------------------------------------------------------------------
(* Claims about the assertion context, checked under SpecCtx *)

Builders == {"Msg", "AddMsg", "PrependMsg", "MsgSep", "Lax", "Strict", "New"}

\* Context i is context j or one j was derived from, directly or not.
RECURSIVE AncestorOrSelf(_, _)
AncestorOrSelf(i, j) ==
    IF i = j THEN TRUE
    ELSE IF hist[j].from = 0 THEN FALSE
    ELSE AncestorOrSelf(i, hist[j].from)

\* The separator in effect on a context seen as v: the one set by MsgSep, else " - ".
SepInEffect(v) == IF ver = 2 /\ v.msgSep # "" THEN v.msgSep ELSE " - "

Newest == View(heap, ctx[Len(ctx)])

\* C5: New returns a strict context; a failed check is reported through
\* Fatalf exactly when its context is strict and through Errorf otherwise;
\* the test goes on after Errorf and only Fatalf stops it; a context's
\* strictness is never changed, and a derived context differs in strictness
\* from the one it was derived from only when Lax or Strict returned it.
C5_StrictDefaultAndDispatch ==
    /\ \A i \in 1 .. Len(ctx) :
          /\ (hist[i].from = 0) => ctx[i].strict
          /\ (i <= Len(before)) => (ctx[i].strict = before[i].strict)
          /\ (hist[i].from # 0) =>
                ctx[i].strict = CASE hist[i].op = "Lax" -> FALSE
                                  [] hist[i].op = "Strict" -> TRUE
                                  [] OTHER -> ctx[hist[i].from].strict
    /\ \A k \in 1 .. Len(tblog) :
          tblog[k].fn = IF ctx[tblog[k].ctx].strict THEN "Fatalf" ELSE "Errorf"
    /\ running <=> (\A k \in 1 .. Len(tblog) : tblog[k].fn = "Errorf")

\* C5 witness: a lax copy reported through Errorf, the test went on, and the
\* strict root then reported through Fatalf and the test stopped.
C5_Witness ==
    /\ Len(tblog) = 2
    /\ tblog[1].fn = "Errorf"
    /\ ~ctx[tblog[1].ctx].strict
    /\ tblog[2].fn = "Fatalf"
    /\ tblog[2].ctx = 1
    /\ ~running

\* C6: a builder call on a context leaves that context, and every context it
\* was derived from, as they were: test handle, strict flag, template,
\* argument sequence and separator.
C6_BuildersLeaveReceiverAlone ==
    (last.op \in Builders) =>
        \A i \in 1 .. Len(before) :
            AncestorOrSelf(i, last.src) => View(heap, ctx[i]) = before[i]

\* C6 witness: AddMsg appended within the capacity of its receiver's
\* argument array (both contexts share the array), and a Strict() copy of a
\* lax context exists.
C6_Witness ==
    /\ last.op = "AddMsg"
    /\ ctx[last.src].failArgs.arr # 0
    /\ ctx[Len(ctx)].failArgs.arr = ctx[last.src].failArgs.arr
    /\ ctx[Len(ctx)].failArgs.len > ctx[last.src].failArgs.len

\* C8: AddMsg on a context with template T, arguments A and separator S
\* returns template T+S+f with arguments A++xs, PrependMsg returns f+S+T with
\* xs++A, and on a context without a template both return what Msg returns;
\* AddMsg("a %s","x"), AddMsg("b %s","y"), PrependMsg("#%d msg",1) on a fresh
\* context give "#%d msg - a %s - b %s" with arguments 1, "x", "y".
C8_MessageComposition ==
    /\ (last.op \in {"AddMsg", "PrependMsg"}) =>
          LET p == before[last.src]
              S == SepInEffect(p)
          IN  /\ Newest.tb = p.tb
              /\ Newest.strict = p.strict
              /\ Newest.msgSep = p.msgSep
              /\ IF p.failFormat = ""
                 THEN Newest.failFormat = last.f /\ Newest.failArgs = last.xs
                 ELSE IF last.op = "AddMsg"
                 THEN /\ Newest.failFormat = p.failFormat \o S \o last.f
                      /\ Newest.failArgs = p.failArgs \o last.xs
                 ELSE /\ Newest.failFormat = last.f \o S \o p.failFormat
                      /\ Newest.failArgs = last.xs \o p.failArgs
    /\ LET r1 == AddMsg(<<>>, New("t").is, "a %s", <<ArgX>>)
           r2 == AddMsg(r1.heap, r1.new, "b %s", <<ArgY>>)
           r3 == PrependMsg(r2.heap, r2.new, "#%d msg", <<ArgOne>>)
       IN  /\ View(r2.heap, r2.new).failFormat = "a %s - b %s"
           /\ View(r2.heap, r2.new).failArgs = <<ArgX, ArgY>>
           /\ View(r3.heap, r3.new).failFormat = "#%d msg - a %s - b %s"
           /\ View(r3.heap, r3.new).failArgs = <<ArgOne, ArgX, ArgY>>

\* C8 witness: PrependMsg on a context with a template, arguments and the
\* separator ", " set by MsgSep.
C8_Witness ==
    /\ last.op = "PrependMsg"
    /\ before[last.src].msgSep = ", "
    /\ Newest.failFormat = "a %s, a %s"
    /\ Newest.failArgs = <<ArgX, ArgOne, ArgY>>

\* C9: a failed check with format F and arguments X on a context with
\* template T and arguments A hands the test handle F + separator + T and
\* X++A; without a template exactly F and X; every context's template and
\* arguments are as before the dispatch.
C9_FailureComposition ==
    (last.op = "fail") =>
        LET e == tblog[Len(tblog)]
            c == before[last.src]
        IN  /\ e.tb = c.tb
            /\ IF c.failFormat # ""
               THEN /\ e.format = last.f \o SepInEffect(c) \o c.failFormat
                    /\ e.args = last.xs \o c.failArgs
               ELSE e.format = last.f /\ e.args = last.xs
            /\ \A i \in 1 .. Len(ctx) : View(heap, ctx[i]) = before[i]

\* C9 witness: a check failed on a context with the separator ", ", a
\* template and an argument.
C9_Witness ==
    /\ last.op = "fail"
    /\ tblog[Len(tblog)].format = "expected no error, but got: %v, a %s"
    /\ tblog[Len(tblog)].args = <<ErrVal(20, "error"), ArgX>>

\* C7 (as stated): a context returned by AddMsg on a parent with a message
\* keeps reporting the parent's arguments followed by its own, whatever is
\* derived from the parent afterwards.
C7_SiblingsIndependent ==
    \A i \in 1 .. Len(ctx) :
        (hist[i].op = "AddMsg" /\ ctx[hist[i].from].failFormat # "") =>
            View(heap, ctx[i]).failArgs =
                View(heap, ctx[hist[i].from]).failArgs \o hist[i].xs

-----------------------------------------------------------------------------
(* Claims about the v3 Lax scope, checked under SpecLax *)

IsLaxChild(id) == hist[id].op = "Lax"

IsAggregate(e) == e.format = FailFmt(ver, ctx[e.ctx], AggregateFormat)

\* C10: a failing check made directly on the child of a Lax scope is reported
\* through Errorf and does not stop the callback; when the callback has
\* returned the parent has dispatched one aggregate failure if k >= 1 checks
\* on the child failed and none if k = 0; aggregate failures exist only for
\* scopes that returned, and each is reported with the parent's strictness,
\* so that of a strict parent stops the test.
C10_LaxScopeAggregatesOnce ==
    /\ \A j \in 1 .. Len(tblog) :
          /\ IsLaxChild(tblog[j].ctx) => tblog[j].fn = "Errorf"
          /\ tblog[j].fn = IF ctx[tblog[j].ctx].strict THEN "Fatalf" ELSE "Errorf"
    /\ running <=> (\A j \in 1 .. Len(tblog) : tblog[j].fn = "Errorf")
    /\ \A j \in 1 .. Len(done) :
          /\ done[j].agg = IF done[j].k >= 1 THEN 1 ELSE 0
          /\ (done[j].agg = 1) =>
                \E e \in 1 .. Len(tblog) :
                    /\ IsAggregate(tblog[e])
                    /\ tblog[e].ctx = done[j].parent
                    /\ tblog[e].fn = IF done[j].strict THEN "Fatalf" ELSE "Errorf"
    /\ Cardinality({e \in 1 .. Len(tblog) : IsAggregate(tblog[e])})
          = Cardinality({j \in 1 .. Len(done) : done[j].agg = 1})

\* C10 witness: three checks ran on the child of a strict parent, one of them
\* failed and was reported through Errorf, and after the callback returned
\* the parent reported one aggregate failure through Fatalf.
C10_Witness ==
    /\ Len(done) = 1
    /\ done[1].n = 3
    /\ done[1].k = 1
    /\ done[1].strict
    /\ Len(tblog) = 2
    /\ tblog[1].fn = "Errorf"
    /\ tblog[1].ctx = done[1].child
    /\ tblog[2].fn = "Fatalf"
    /\ tblog[2].format = AggregateFormat
    /\ ~running

-----------------------------------------------------------------------------
(* Claims about the check operations, checked under SpecOps *)

\* The check operations (Fail has no predicate; New builds a context).
CheckOps ==
    {"Equal", "NotEqual", "OneOf", "NotOneOf", "Contains", "Err", "ErrMsg", "NotErr",
     "Nil", "NotNil", "True", "False", "Zero", "NotZero", "Len", "ShouldPanic",
     "EqualType", "IsType", "WaitForTrue"}

IsContainer(o) == o # NilIface /\ Kind(o.t) \in {"Array", "Slice", "Map"}

\* The predicate of the check call that ended last, stated on its operands.
Holds ==
    LET x == call.args[1]
        y == call.args[2]
    IN  CASE call.op = "Equal" -> isEqualV(ver, x, y).ret
          [] call.op = "NotEqual" -> ~isEqualV(ver, x, y).ret
          [] call.op = "OneOf" -> \E i \in 1 .. Len(y) : isEqualV(ver, x, y[i]).ret
          [] call.op = "NotOneOf" -> ~\E i \in 1 .. Len(y) : isEqualV(ver, x, y[i]).ret
          [] call.op = "Contains" ->
                 /\ x # NilIface
                 /\ \/ /\ Kind(x.t) = "String"
                       /\ y # NilIface
                       /\ Kind(y.t) = "String"
                       /\ stringsContains(x.s, y.s)
                    \/ /\ Kind(x.t) = "Slice"
                       /\ \E i \in 1 .. Len(x.q) : isEqual(Index(x, i), y).ret
          [] call.op = "Err" -> ~isNil(x)
          [] call.op = "ErrMsg" -> ~isNil(x) /\ x.s = y
          [] call.op = "NotErr" -> isNil(x)
          [] call.op = "Nil" -> isNil(x)
          [] call.op = "NotNil" -> ~isNil(x)
          [] call.op = "True" -> x
          [] call.op = "False" -> ~x
          [] call.op = "Zero" -> isZero(x)
          [] call.op = "NotZero" -> ~isZero(x)
          [] call.op = "Len" -> IsContainer(x) /\ Len(x.q) = y
          [] call.op = "ShouldPanic" -> x # "returns"
          [] call.op = "EqualType" -> x.t = y.t
          [] call.op = "IsType" -> y # NilIface /\ x = y.t
          [] OTHER -> call.sawTrue

\* C4: a call of a check operation hands fail() one failure when its
\* predicate does not hold and none when it holds, it does not panic, and
\* a v2 operation that returns a boolean returns true exactly when it
\* dispatched no failure.
C4_OneDispatchPerFailedCheck ==
    call.op \in CheckOps =>
        /\ ~call.panic
        /\ call.fails = IF Holds THEN 0 ELSE 1
        /\ call.ret # "none" => (call.ret = "true" <=> call.fails = 0)
-----------------------------------------------------------------------------
(* Claims about assertions made inside a Lax callback, checked under SpecLax *)

\* Context j is context i, or was derived from it by Msg and AddMsg calls only.
RECURSIVE DerivedByMsg(_, _)
DerivedByMsg(i, j) ==
    IF i = j THEN TRUE
    ELSE IF hist[j].op \notin {"Msg", "AddMsg"} THEN FALSE
    ELSE DerivedByMsg(i, hist[j].from)

\* C11: when the callback of a Lax scope returns and an assertion made inside
\* it has failed, on the child or on a context derived from the child with
\* Msg or AddMsg, the parent reports the aggregate failure.
C11_DerivedFailuresAggregate ==
    [][Len(done') > Len(done) =>
          LET d == done'[Len(done')]
          IN  (\E e \in 1 .. Len(tblog) : DerivedByMsg(d.child, tblog[e].ctx))
                  => d.agg = 1]_vars
-----------------------------------------------------------------------------
(* Claims about WaitForTrue, checked under SpecOps *)

\* C12: a WaitForTrue call that reported the timeout failure has invoked the
\* predicate at least once before, whatever the timeout and whenever the
\* timer fired.
C12_PolledBeforeTimeout ==
    (call.op = "WaitForTrue" /\ call.fails = 1) => call.polls >= 1
\* C13: every WaitForTrue call ends, given that the timer fires and the
\* predicate returns; it ends with no failure when the predicate returned true
\* before the timer fired and with exactly one failure otherwise, and the
\* loop is left when the call has ended, so the predicate is not invoked again.
C13_WaitForTrueTerminates ==
    /\ [](call.op = "WaitForTrue" =>
             /\ call.fails = (IF call.sawTrue THEN 0 ELSE 1)
             /\ call.fails = 1 => Len(tblog) >= 1 /\ tblog[Len(tblog)].ctx = call.ctx
             /\ wait = NoWait)
    /\ (wait.phase = "loop") ~> (wait.phase = "idle")

\* C13 witness: the predicate returned false at both of its invocations, the
\* timer fired, and the call ended with its one failure.
C13_Witness ==
    /\ call.op = "WaitForTrue"
    /\ call.polls = MaxPolls
    /\ ~call.sawTrue
    /\ call.fails = 1
    /\ wait.phase = "idle"
    /\ tblog[Len(tblog)].format = "function did not return true within the timeout of %v"
-----------------------------------------------------------------------------
(* Further claims about the equality engine, checked under SpecEq *)

\* C14: isEqual returns a boolean for every pair of operands and never
\* raises a runtime fault (the hooks of the universe do not raise).
C14_IsEqualTotal ==
    pc = "done" => ~out.panic
-----------------------------------------------------------------------------
(* Further claims about the check operations, checked under SpecOps *)

\* C15: Contains does a substring check on two strings and a membership
\* check with isEqual on a slice container; every other pair of operands,
\* an untyped nil included, gets one argument-type failure and the result
\* false, and the call never panics.
C15_ContainsByKind ==
    call.op = "Contains" =>
        LET x == call.args[1]
            y == call.args[2]
        IN  /\ ~call.panic
            /\ IF Kind(x.t) = "String" /\ Kind(y.t) = "String"
               THEN call.fails = 0 <=> stringsContains(x.s, y.s)
               ELSE IF Kind(x.t) = "Slice"
               THEN call.fails = 0 <=>
                        \E i \in 1 .. Len(x.q) : isEqual(Index(x, i), y).ret
               ELSE /\ call.fails = 1
                    /\ tblog[Len(tblog)].format = FailFmt(ver, ctx[call.ctx],
                           "unexpected argument types %T and %T")
                    /\ running => call.ret = "false"
\* C16: in v3, when the comparison of Equal is false the call does not panic
\* and dispatches one failure, an untyped nil operand included; the diff
\* appended to the message is empty unless both operands are slices or both
\* are maps.
C16_DiffNeverRaises ==
    LET x == call.args[1]
        y == call.args[2]
        e == isEqualV(ver, x, y)
    IN  (ver = 3 /\ call.op = "Equal" /\ ~e.panic /\ ~e.ret) =>
            /\ ~call.panic
            /\ call.fails = 1
            /\ (Kind(x.t) # Kind(y.t) \/ Kind(x.t) \notin {"Slice", "Map"}) =>
                   tblog[Len(tblog)].args[5] = StrVal("")
-----------------------------------------------------------------------------
(* Claims about isNil and isZero, checked under SpecNilZero *)

IsSeqMapChan(v) == v # NilIface /\ Kind(v.t) \in {"Slice", "Map", "Chan"}

IsZeroScalar(v) ==
    /\ v # NilIface
    /\ Kind(v.t) \notin {"Slice", "Map", "Chan", "Func", "Ptr", "Array"}
    /\ v.n = 0
    /\ v.s = ""

\* C17 as stated: isZero and isNil are both true on every empty slice, map
\* and channel, nil or allocated, and differ on the zero scalars.
C17_AgreeOnEveryEmpty ==
    pc = "done" =>
        /\ (IsSeqMapChan(a) /\ Len(a.q) = 0) => (out.nil /\ out.zero)
        /\ IsZeroScalar(a) => (out.zero /\ ~out.nil)

\* C17 amended: isZero and isNil are both true on every nil slice, map and
\* channel; on an allocated empty one isZero is true and isNil is false; on
\* the zero scalars isZero is true and isNil is false.
C17_AgreeOnNilOnly ==
    pc = "done" =>
        /\ (IsSeqMapChan(a) /\ a.nil) => (out.nil /\ out.zero)
        /\ (IsSeqMapChan(a) /\ ~a.nil /\ Len(a.q) = 0) => (out.zero /\ ~out.nil)
        /\ IsZeroScalar(a) => (out.zero /\ ~out.nil)

\* C17 witness: both functions were applied to an allocated empty slice.
C17_Witness ==
    /\ pc = "done"
    /\ a = SeqVal("[]int", 9, <<>>)
    /\ out.zero
    /\ ~out.nil
\* C18: ShouldPanic dispatches no failure when its callback panicked,
\* whatever the panic value, a nil one included, and one failure when the
\* callback returned; the panic does not leave ShouldPanic.
C18_AnyPanicSatisfies ==
    call.op = "ShouldPanic" =>
        /\ ~call.panic
        /\ call.fails = (IF call.args[1] = "returns" THEN 1 ELSE 0)
-----------------------------------------------------------------------------
(* Claims about the equality hook in Equal, checked under SpecHooks *)

\* The hook calls isEqual makes for the operands of the last call.
HookCalls == isEqualV(ver, call.args[1], call.args[2]).calls

\* C19 as stated: Equal(hookedA, plainB), the fields `equal` being true and
\* false, invokes the hook of hookedA and dispatches no failure.
C19_HookedEqualPasses ==
    (call.op = "Equal" /\ call.args = <<HookedA, PlainB>>) =>
        /\ HookCalls = <<[method |-> "Equal", recv |-> HookedA, arg |-> PlainB]>>
        /\ call.fails = 0

\* C19 amended: Equal(hookedA, plainB) invokes the hook of hookedA once, with
\* plainB, the hook returns false because the two fields differ, and Equal
\* dispatches exactly one failure.
C19_HookedEqualFails ==
    (call.op = "Equal" /\ call.args = <<HookedA, PlainB>>) =>
        /\ HookCalls = <<[method |-> "Equal", recv |-> HookedA, arg |-> PlainB]>>
        /\ ~call.panic
        /\ call.fails = 1
        /\ tblog[Len(tblog)].ctx = call.ctx

\* C19 witness: Equal(hookedA, plainB) was called and has ended.
C19_Witness ==
    /\ call.op = "Equal"
    /\ call.args = <<HookedA, PlainB>>
    /\ call.fails = 1
    /\ Len(tblog) >= 1
-----------------------------------------------------------------------------
(* Claims about the require wrappers, checked under SpecRequire *)

\* The message handed to the wrapper that made the last call.
CallMsg == call.args[Len(call.args)]

EndsWith(s, t) == Len(s) >= Len(t) /\ SubSeq(s, Len(s) - Len(t) + 1, Len(s)) = t

\* C20: when a wrapper of the require package is given a non-empty message and
\* its check fails, the failure handed to the test handle carries the message
\* template after the check's own format and the message arguments after the
\* check's own arguments.
C20_RequireMessageReported ==
    (/\ call.op \in RequireOps
     /\ call.fails > 0
     /\ CallMsg # <<>>
     /\ Head(CallMsg) # "") =>
        LET e == tblog[Len(tblog)]
        IN  /\ Len(e.format) > Len(Head(CallMsg))
            /\ EndsWith(e.format, Head(CallMsg))
            /\ Len(e.args) >= Len(Tail(CallMsg))
            /\ EndsWith(e.args, Tail(CallMsg))
-----------------------------------------------------------------------------
(* Claims about integers of different kinds, checked under SpecEq *)

\* C21: for integer operands of two different integer kinds, isEqual returns
\* true only if both hold the same mathematical integer: converting b to a's
\* type never makes two different numbers compare equal.
C21_EqualOnlyIfSameInteger ==
    (pc = "done" /\ a.t \in IntTypes /\ b.t \in IntTypes /\ a.t # b.t /\ out.ret)
        => a.n = b.n
-----------------------------------------------------------------------------
(* Claims about the symmetry of isEqual, checked under SpecEq *)

Unhooked(x) == ~isNil(x) /\ ~HasHook(ver, x.t)

\* C22: for non-nil-like operands neither of whose types implements an
\* equality hook, isEqual is symmetric: isEqual(a, b) ends as isEqual(b, a)
\* does, with the same result.
C22_IsEqualSymmetric ==
    (pc = "done" /\ Unhooked(a) /\ Unhooked(b))
        => /\ out.panic = isEqualV(ver, b, a).panic
           /\ out.ret = isEqualV(ver, b, a).ret

=============================================================================
